---- MODULE Spec2Model ----
(***************************************************************************)
(* A model of BuildPipe (src/extensions/builder/build-pipe.ts): the        *)
(* sequential build-task orchestrator.  One run of execute() is modelled   *)
(* step by step: the pre-build loop, the task loop (cascading skip,        *)
(* failure tracking, artifact gating) and the post-build loop.  Every      *)
(* awaited operation (preBuild, execute, postBuild) has a start step and a *)
(* settle step, so that what is in flight is part of the state.            *)
(*                                                                         *)
(* Strings that the code takes apart (task ids, dependency strings) are    *)
(* sequences of one-character strings; all other strings are atoms.        *)
(***************************************************************************)
EXTENDS Integers, Sequences, FiniteSets, TLC

VARIABLES
    tasksQueue,            \* readonly tasksQueue: sequence of [task, env]
    envsBuildContext,      \* readonly envsBuildContext: env id -> BuildContext
    failedTasks,           \* private failedTasks: BuildTask[]
    failedDependencyTask,  \* private failedDependencyTask: BuildTask | undefined
    pc,                    \* where execute() is: the phase, "done" or "fatal"
    idx,                   \* position of Bluebird.mapSeries in the current phase
    running,               \* the awaited operation in flight, or NoOp
    results,               \* the array mapSeries builds in the task loop
    tasksResultsList,      \* new TaskResultsList(queue, compact(results))
    calls,                 \* calls made on the collaborators, in order
    error                  \* the error execute() rejected with, or Undefined

vars == <<tasksQueue, envsBuildContext, failedTasks, failedDependencyTask,
          pc, idx, running, results, tasksResultsList, calls, error>>

(***************************************************************************)
(* Bounds and input sets                                                   *)
(***************************************************************************)
MaxQueue == 3

\* undefined and null, as values no task, context, result or error equals
Undefined == [undefined |-> TRUE]
Null == [null |-> TRUE]
NoOp == [op |-> "none", entry |-> 0]

\* the separator of a serialized task id
TaskIdDelimiter == ":"

RegisteredEnvs == {"env1"}
EnvIds == {"env1", "ghost"}

\* dependency strings, as the characters of "a", "a:x" and "b"
DepStrings == {<<"a">>, <<"a", ":", "x">>, <<"b">>}

\* dependency lists: none, one, or two different ones in either order
DepLists ==
    {<<>>} \cup {<<d>> : d \in DepStrings}
           \cup {<<p[1], p[2]>> :
                    p \in {q \in DepStrings \X DepStrings : q[1] # q[2]}}

Task(aspectId, name, deps, pre, post) ==
    [aspectId |-> aspectId, name |-> name, dependencies |-> deps,
     preBuild |-> pre, postBuild |-> post]

\* ExecuteResult.componentsResults: per component, its number of errors
ExecuteResults == {<<0>>, <<0, 2>>}


\* an absent task name (undefined, falsy)
NoName == <<>>

\* tasks of the hook-and-environment inputs: a root "a" and a dependent "b" of
\* it, each with every combination of hooks
PipeTasks ==
    {Task(<<"a">>, NoName, <<>>, pre, post) : pre \in BOOLEAN, post \in BOOLEAN}
    \cup {Task(<<"b">>, NoName, <<<<"a">>>>, pre, post) :
            pre \in BOOLEAN, post \in BOOLEAN}

PipeEntries == {[task |-> t, env |-> e] : t \in PipeTasks, e \in EnvIds}

\* tasks of the dependency inputs: the roots "a" (with both hooks), "a:x" and
\* "a:y" without dependencies, and dependents "b" with every dependency list
DepsTasks ==
    {Task(<<"a">>, NoName, <<>>, TRUE, TRUE)}
    \cup {Task(<<"a">>, n, <<>>, FALSE, FALSE) : n \in {<<"x">>, <<"y">>}}
    \cup {Task(<<"b">>, NoName, deps, FALSE, FALSE) : deps \in DepLists \ {<<>>}}

DepsEntries == {[task |-> t, env |-> "env1"] : t \in DepsTasks}

Queues(entries) == UNION {[1..n -> entries] : n \in 0..MaxQueue}

(***************************************************************************)
(* BuildTaskHelper: the task id codec                                      *)
(***************************************************************************)
serializeId(task) ==
    IF task.name = NoName
    THEN task.aspectId
    ELSE task.aspectId \o <<TaskIdDelimiter>> \o task.name

DelimiterAt(s) ==
    IF \E i \in 1..Len(s) : s[i] = TaskIdDelimiter
    THEN CHOOSE i \in 1..Len(s) :
            /\ s[i] = TaskIdDelimiter
            /\ \A j \in 1..(i - 1) : s[j] # TaskIdDelimiter
    ELSE 0

deserializeId(s) ==
    LET p == DelimiterAt(s) IN
    IF p = 0
    THEN [aspectId |-> s, name |-> NoName]
    ELSE [aspectId |-> SubSeq(s, 1, p - 1), name |-> SubSeq(s, p + 1, Len(s))]

(***************************************************************************)
(* Pure parts of BuildPipe                                                 *)
(***************************************************************************)
\* a callback that compares the owner only
MatchesOwnerOnly(dependency, failedTask) ==
    deserializeId(dependency).aspectId = failedTask.aspectId

\* the callback of failedTasks.find (lines 134-137)
MatchesFailedTask(dependency, failedTask) ==
    LET id == deserializeId(dependency) IN
    IF id.name # NoName /\ id.name # failedTask.name
    THEN FALSE
    ELSE id.aspectId = failedTask.aspectId

\* a search that returns the last element that satisfies the callback
FindLastFailedTask(dependency, failed) ==
    IF \E i \in 1..Len(failed) : MatchesFailedTask(dependency, failed[i])
    THEN failed[CHOOSE i \in 1..Len(failed) :
            /\ MatchesFailedTask(dependency, failed[i])
            /\ \A j \in (i + 1)..Len(failed) :
                    ~MatchesFailedTask(dependency, failed[j])]
    ELSE Undefined

\* Array.prototype.find: the first element that satisfies the callback
FindFailedTask(dependency, failed) ==
    IF \E i \in 1..Len(failed) : MatchesFailedTask(dependency, failed[i])
    THEN failed[CHOOSE i \in 1..Len(failed) :
            /\ MatchesFailedTask(dependency, failed[i])
            /\ \A j \in 1..(i - 1) : ~MatchesFailedTask(dependency, failed[j])]
    ELSE Undefined

\* dependencies.forEach: every dependency assigns the field anew (lines 132-138)
RECURSIVE ForEachDependency(_, _, _)
ForEachDependency(deps, failed, current) ==
    IF deps = <<>>
    THEN current
    ELSE ForEachDependency(Tail(deps), failed, FindFailedTask(Head(deps), failed))

\* a scan that blames the first failed task whatever the task depends on
updateFailedDependencyTaskAnyFailure(task, failed, current) ==
    IF current = Undefined /\ Len(failed) > 0
    THEN failed[1]
    ELSE current

\* a scan that runs again although a cause is recorded
updateFailedDependencyTaskRescans(task, failed, current) ==
    IF Len(failed) > 0
    THEN ForEachDependency(task.dependencies, failed, current)
    ELSE current

\* updateFailedDependencyTask: the value of failedDependencyTask after the call
updateFailedDependencyTask(task, failed, current) ==
    IF current = Undefined /\ Len(failed) > 0
    THEN ForEachDependency(task.dependencies, failed, current)
    ELSE current

\* shouldSkipTask: whether the entry is skipped, given the recorded cause
shouldSkipTask(cause) == cause # Undefined

\* getBuildContext: the context, or Undefined where the code throws
getBuildContext(registry, envId) ==
    IF envId \in DOMAIN registry THEN registry[envId] ELSE Undefined

\* a filter that looks at the first component only
compsWithErrorsFirstOnly(componentsResults) ==
    SelectSeq(SubSeq(componentsResults, 1, 1), LAMBDA c : c > 0)

\* compsWithErrors (line 97)
compsWithErrors(componentsResults) ==
    SelectSeq(componentsResults, LAMBDA c : c > 0)

\* the list as mapSeries built it, nulls included
compactKeepsNull(list) == list

\* compact of ramda-adjunct: the list without its null elements
compact(list) == SelectSeq(list, LAMBDA r : r # Null)


(***************************************************************************)
(* The state after construction, and execute()                             *)
(***************************************************************************)
Constructed(entries) ==
    /\ tasksQueue \in Queues(entries)
    /\ envsBuildContext = [e \in RegisteredEnvs |-> [envId |-> e]]
    /\ failedTasks = <<>>
    /\ failedDependencyTask = Undefined
    /\ pc = "idle"
    /\ idx = 0
    /\ running = NoOp
    /\ results = <<>>
    /\ tasksResultsList = Undefined
    /\ calls = <<>>
    /\ error = Undefined

Init == Constructed(PipeEntries)

InitDeps == Constructed(DepsEntries)

\* the rejection of execute(): nothing runs afterwards
Throw(err) ==
    /\ pc' = "fatal"
    /\ error' = err
    /\ running' = NoOp

MissingContext(envId) ==
    [message |-> "unable to find buildContext", envId |-> envId]

Raised(operation) == [message |-> "raised", operation |-> operation]

\* the record, among the calls, of how an awaited operation settled
Settled(operation, how) ==
    [op |-> "settled", entry |-> operation.entry, of |-> operation.op, how |-> how]

\* Bluebird.map: the next element is taken at once
mapReady == TRUE

\* Bluebird.mapSeries: the next element is taken when the promise of the
\* previous one has settled (lines 67, 77, 123)
mapSeriesReady == running = NoOp

\* execute() is called: executePreBuild starts its loop
execute ==
    /\ pc = "idle"
    /\ pc' = "preBuild"
    /\ idx' = 1
    /\ UNCHANGED <<tasksQueue, envsBuildContext, failedTasks, failedDependencyTask,
                   running, results, tasksResultsList, calls, error>>

\* executePreBuild, one entry of mapSeries up to its await (lines 77-79)
executePreBuild ==
    /\ pc = "preBuild"
    /\ mapSeriesReady
    /\ idx <= Len(tasksQueue)
    /\ LET task == tasksQueue[idx].task
           env == tasksQueue[idx].env
           buildContext == getBuildContext(envsBuildContext, env)
       IN  IF ~task.preBuild
           THEN /\ idx' = idx + 1
                /\ UNCHANGED <<pc, running, calls, error>>
           ELSE IF buildContext = Undefined
           THEN /\ Throw(MissingContext(env))
                /\ UNCHANGED <<idx, calls>>
           ELSE /\ running' = [op |-> "preBuild", entry |-> idx]
                /\ calls' = Append(calls, [op |-> "preBuild", entry |-> idx,
                                           context |-> buildContext])
                /\ UNCHANGED <<pc, idx, error>>
    /\ UNCHANGED <<tasksQueue, envsBuildContext, failedTasks, failedDependencyTask,
                   results, tasksResultsList>>

\* a settle that swallows the error of a raising preBuild and goes on
settlePreBuildSwallows ==
    /\ pc = "preBuild"
    /\ running.op = "preBuild"
    /\ \E raises \in BOOLEAN :
          /\ running' = NoOp
          /\ calls' = Append(calls, Settled(running,
                                 IF raises THEN "raised" ELSE "returned"))
          /\ idx' = idx + 1
          /\ UNCHANGED <<pc, error>>
    /\ UNCHANGED <<tasksQueue, envsBuildContext, failedTasks, failedDependencyTask,
                   results, tasksResultsList>>

\* the awaited preBuild settles: it returns, or it raises
settlePreBuild ==
    /\ pc = "preBuild"
    /\ running.op = "preBuild"
    /\ \E raises \in BOOLEAN :
          IF raises
          THEN /\ Throw(Raised(running))
               /\ calls' = Append(calls, Settled(running, "raised"))
               /\ UNCHANGED idx
          ELSE /\ running' = NoOp
               /\ calls' = Append(calls, Settled(running, "returned"))
               /\ idx' = idx + 1
               /\ UNCHANGED <<pc, error>>
    /\ UNCHANGED <<tasksQueue, envsBuildContext, failedTasks, failedDependencyTask,
                   results, tasksResultsList>>

\* executePreBuild returns; the task loop starts (lines 81, 66-67)
startTasks ==
    /\ pc = "preBuild"
    /\ running = NoOp
    /\ idx > Len(tasksQueue)
    /\ pc' = "tasks"
    /\ idx' = 1
    /\ results' = <<>>
    /\ UNCHANGED <<tasksQueue, envsBuildContext, failedTasks, failedDependencyTask,
                   running, tasksResultsList, calls, error>>

\* an executeTask that warns about the skip and goes on to execute the task
executeTaskSkipFallsThrough ==
    /\ pc = "tasks"
    /\ mapSeriesReady
    /\ idx <= Len(tasksQueue)
    /\ LET task == tasksQueue[idx].task
           env == tasksQueue[idx].env
           cause == updateFailedDependencyTask(task, failedTasks,
                                               failedDependencyTask)
           buildContext == getBuildContext(envsBuildContext, env)
           warned == IF shouldSkipTask(cause)
                     THEN Append(calls, [op |-> "consoleWarning",
                                         entry |-> idx,
                                         taskId |-> serializeId(task),
                                         failedTaskId |-> serializeId(cause)])
                     ELSE calls
       IN  /\ failedDependencyTask' = cause
           /\ IF buildContext = Undefined
              THEN /\ Throw(MissingContext(env))
                   /\ UNCHANGED <<idx, results, calls>>
              ELSE /\ running' = [op |-> "execute", entry |-> idx]
                   /\ calls' = Append(warned, [op |-> "execute", entry |-> idx,
                                               context |-> buildContext])
                   /\ UNCHANGED <<pc, idx, results, error>>
    /\ UNCHANGED <<tasksQueue, envsBuildContext, failedTasks, tasksResultsList>>

\* an executeTask that counts a skipped task as a failed one
executeTaskSkipCountsAsFailure ==
    /\ pc = "tasks"
    /\ mapSeriesReady
    /\ idx <= Len(tasksQueue)
    /\ LET task == tasksQueue[idx].task
           env == tasksQueue[idx].env
           cause == updateFailedDependencyTask(task, failedTasks,
                                               failedDependencyTask)
           buildContext == getBuildContext(envsBuildContext, env)
       IN  /\ failedDependencyTask' = cause
           /\ IF shouldSkipTask(cause)
              THEN /\ calls' = Append(calls, [op |-> "consoleWarning",
                                              entry |-> idx,
                                              taskId |-> serializeId(task),
                                              failedTaskId |-> serializeId(cause)])
                   /\ results' = Append(results, Null)
                   /\ failedTasks' = Append(failedTasks, task)
                   /\ idx' = idx + 1
                   /\ UNCHANGED <<pc, running, error>>
              ELSE IF buildContext = Undefined
              THEN /\ Throw(MissingContext(env))
                   /\ UNCHANGED <<idx, results, calls, failedTasks>>
              ELSE /\ running' = [op |-> "execute", entry |-> idx]
                   /\ calls' = Append(calls, [op |-> "execute", entry |-> idx,
                                              context |-> buildContext])
                   /\ UNCHANGED <<pc, idx, results, error, failedTasks>>
    /\ UNCHANGED <<tasksQueue, envsBuildContext, tasksResultsList>>

\* executeTask up to its await (lines 84-95)
executeTask ==
    /\ pc = "tasks"
    /\ mapSeriesReady
    /\ idx <= Len(tasksQueue)
    /\ LET task == tasksQueue[idx].task
           env == tasksQueue[idx].env
           cause == updateFailedDependencyTask(task, failedTasks,
                                               failedDependencyTask)
           buildContext == getBuildContext(envsBuildContext, env)
       IN  /\ failedDependencyTask' = cause
           /\ IF shouldSkipTask(cause)
              THEN /\ calls' = Append(calls, [op |-> "consoleWarning",
                                              entry |-> idx,
                                              taskId |-> serializeId(task),
                                              failedTaskId |-> serializeId(cause)])
                   /\ results' = Append(results, Null)
                   /\ idx' = idx + 1
                   /\ UNCHANGED <<pc, running, error>>
              ELSE IF buildContext = Undefined
              THEN /\ Throw(MissingContext(env))
                   /\ UNCHANGED <<idx, results, calls>>
              ELSE /\ running' = [op |-> "execute", entry |-> idx]
                   /\ calls' = Append(calls, [op |-> "execute", entry |-> idx,
                                              context |-> buildContext])
                   /\ UNCHANGED <<pc, idx, results, error>>
    /\ UNCHANGED <<tasksQueue, envsBuildContext, failedTasks, tasksResultsList>>

\* artifactFactory.generate(buildContext, defs, task)
generate(buildContext, task) ==
    [context |-> buildContext, taskId |-> serializeId(task)]

\* a TaskResults whose artifacts are never assigned
TaskResultsWithoutArtifacts(task, env, componentsResults, buildContext) ==
    [task |-> task,
     env |-> env,
     componentsResults |-> componentsResults,
     artifacts |-> Undefined]

\* the TaskResults of a settled execute (lines 97-116)
TaskResultsOf(task, env, componentsResults, buildContext) ==
    [task |-> task,
     env |-> env,
     componentsResults |-> componentsResults,
     artifacts |-> IF Len(compsWithErrors(componentsResults)) > 0
                   THEN Undefined
                   ELSE generate(buildContext, task)]

\* a settle that rejects the run when the ExecuteResult carries component errors
settleTaskThrowsOnErrors ==
    /\ pc = "tasks"
    /\ running.op = "execute"
    /\ LET task == tasksQueue[idx].task
           env == tasksQueue[idx].env
           buildContext == getBuildContext(envsBuildContext, env)
       IN  \/ /\ Throw(Raised(running))
              /\ calls' = Append(calls, Settled(running, "raised"))
              /\ UNCHANGED <<idx, failedTasks, results>>
           \/ \E componentsResults \in ExecuteResults :
                 IF Len(compsWithErrors(componentsResults)) > 0
                 THEN /\ Throw(Raised(running))
                      /\ failedTasks' = Append(failedTasks, task)
                      /\ calls' = calls \o <<Settled(running, "returned"),
                                [op |-> "consoleFailure", entry |-> idx]>>
                      /\ UNCHANGED <<idx, results>>
                 ELSE /\ failedTasks' = failedTasks
                      /\ calls' = calls \o <<Settled(running, "returned"),
                                [op |-> "generate", entry |-> idx]>>
                      /\ results' = Append(results,
                            TaskResultsOf(task, env, componentsResults, buildContext))
                      /\ running' = NoOp
                      /\ idx' = idx + 1
                      /\ UNCHANGED <<pc, error>>
    /\ UNCHANGED <<tasksQueue, envsBuildContext, failedDependencyTask,
                   tasksResultsList>>

\* the awaited execute settles: it raises, or it returns an ExecuteResult that
\* executeTask classifies (lines 95-118)
settleTask ==
    /\ pc = "tasks"
    /\ running.op = "execute"
    /\ LET task == tasksQueue[idx].task
           env == tasksQueue[idx].env
           buildContext == getBuildContext(envsBuildContext, env)
       IN  \/ /\ Throw(Raised(running))
              /\ calls' = Append(calls, Settled(running, "raised"))
              /\ UNCHANGED <<idx, failedTasks, results>>
           \/ \E componentsResults \in ExecuteResults :
                 /\ IF Len(compsWithErrors(componentsResults)) > 0
                    THEN /\ failedTasks' = Append(failedTasks, task)
                         /\ calls' = calls \o <<Settled(running, "returned"),
                                [op |-> "consoleFailure", entry |-> idx]>>
                    ELSE /\ failedTasks' = failedTasks
                         /\ calls' = calls \o <<Settled(running, "returned"),
                                [op |-> "generate", entry |-> idx]>>
                 /\ results' = Append(results,
                        TaskResultsOf(task, env, componentsResults, buildContext))
                 /\ running' = NoOp
                 /\ idx' = idx + 1
                 /\ UNCHANGED <<pc, error>>
    /\ UNCHANGED <<tasksQueue, envsBuildContext, failedDependencyTask,
                   tasksResultsList>>

\* the task loop is over: the results list is built and executePostBuild starts
\* its loop (lines 68-70)
startPostBuild ==
    /\ pc = "tasks"
    /\ running = NoOp
    /\ idx > Len(tasksQueue)
    /\ tasksResultsList' = compact(results)
    /\ pc' = "postBuild"
    /\ idx' = 1
    /\ UNCHANGED <<tasksQueue, envsBuildContext, failedTasks, failedDependencyTask,
                   running, results, calls, error>>

\* a post-build loop that hands each hook the result of its own entry only
executePostBuildOwnResult ==
    /\ pc = "postBuild"
    /\ mapSeriesReady
    /\ idx <= Len(tasksQueue)
    /\ LET task == tasksQueue[idx].task
           env == tasksQueue[idx].env
           buildContext == getBuildContext(envsBuildContext, env)
       IN  IF ~task.postBuild
           THEN /\ idx' = idx + 1
                /\ UNCHANGED <<pc, running, calls, error>>
           ELSE IF buildContext = Undefined
           THEN /\ Throw(MissingContext(env))
                /\ UNCHANGED <<idx, calls>>
           ELSE /\ running' = [op |-> "postBuild", entry |-> idx]
                /\ calls' = Append(calls, [op |-> "postBuild", entry |-> idx,
                                           context |-> buildContext,
                                           tasksResults |-> compact(<<results[idx]>>)])
                /\ UNCHANGED <<pc, idx, error>>
    /\ UNCHANGED <<tasksQueue, envsBuildContext, failedTasks, failedDependencyTask,
                   results, tasksResultsList>>

\* a post-build loop that passes over the entries that produced no result
executePostBuildOfResultsOnly ==
    /\ pc = "postBuild"
    /\ mapSeriesReady
    /\ idx <= Len(tasksQueue)
    /\ LET task == tasksQueue[idx].task
           env == tasksQueue[idx].env
           buildContext == getBuildContext(envsBuildContext, env)
       IN  IF ~task.postBuild \/ results[idx] = Null
           THEN /\ idx' = idx + 1
                /\ UNCHANGED <<pc, running, calls, error>>
           ELSE IF buildContext = Undefined
           THEN /\ Throw(MissingContext(env))
                /\ UNCHANGED <<idx, calls>>
           ELSE /\ running' = [op |-> "postBuild", entry |-> idx]
                /\ calls' = Append(calls, [op |-> "postBuild", entry |-> idx,
                                           context |-> buildContext,
                                           tasksResults |-> tasksResultsList])
                /\ UNCHANGED <<pc, idx, error>>
    /\ UNCHANGED <<tasksQueue, envsBuildContext, failedTasks, failedDependencyTask,
                   results, tasksResultsList>>

\* executePostBuild, one entry of mapSeries up to its await (lines 123-125)
executePostBuild ==
    /\ pc = "postBuild"
    /\ mapSeriesReady
    /\ idx <= Len(tasksQueue)
    /\ LET task == tasksQueue[idx].task
           env == tasksQueue[idx].env
           buildContext == getBuildContext(envsBuildContext, env)
       IN  IF ~task.postBuild
           THEN /\ idx' = idx + 1
                /\ UNCHANGED <<pc, running, calls, error>>
           ELSE IF buildContext = Undefined
           THEN /\ Throw(MissingContext(env))
                /\ UNCHANGED <<idx, calls>>
           ELSE /\ running' = [op |-> "postBuild", entry |-> idx]
                /\ calls' = Append(calls, [op |-> "postBuild", entry |-> idx,
                                           context |-> buildContext,
                                           tasksResults |-> tasksResultsList])
                /\ UNCHANGED <<pc, idx, error>>
    /\ UNCHANGED <<tasksQueue, envsBuildContext, failedTasks, failedDependencyTask,
                   results, tasksResultsList>>

\* the awaited postBuild settles: it returns, or it raises
settlePostBuild ==
    /\ pc = "postBuild"
    /\ running.op = "postBuild"
    /\ \E raises \in BOOLEAN :
          IF raises
          THEN /\ Throw(Raised(running))
               /\ calls' = Append(calls, Settled(running, "raised"))
               /\ UNCHANGED idx
          ELSE /\ running' = NoOp
               /\ calls' = Append(calls, Settled(running, "returned"))
               /\ idx' = idx + 1
               /\ UNCHANGED <<pc, error>>
    /\ UNCHANGED <<tasksQueue, envsBuildContext, failedTasks, failedDependencyTask,
                   results, tasksResultsList>>

\* executePostBuild returns and execute() returns tasksResultsList (line 72)
return ==
    /\ pc = "postBuild"
    /\ running = NoOp
    /\ idx > Len(tasksQueue)
    /\ pc' = "done"
    /\ UNCHANGED <<tasksQueue, envsBuildContext, failedTasks, failedDependencyTask,
                   idx, running, results, tasksResultsList, calls, error>>

Next ==
    \/ execute
    \/ executePreBuild
    \/ settlePreBuild
    \/ startTasks
    \/ executeTask
    \/ settleTask
    \/ startPostBuild
    \/ executePostBuild
    \/ settlePostBuild
    \/ return

Spec == Init /\ [][Next]_vars

SpecDeps == InitDeps /\ [][Next]_vars

\* every awaited operation settles and every continuation is run
SpecFair == Init /\ [][Next]_vars /\ WF_vars(Next)


(***************************************************************************)
(* What a state says about the run                                         *)
(***************************************************************************)
Entries == 1..Len(tasksQueue)

\* the calls of one kind made for one entry
CallsOf(op, i) == {k \in DOMAIN calls : calls[k].op = op /\ calls[k].entry = i}

\* the entry was reported skipped (the warning of shouldSkipTask)
Skipped(i) == CallsOf("consoleWarning", i) # {}

SkippedEntries == {i \in Entries : Skipped(i)}

\* the execute operation of the entry was invoked
Executed(i) == CallsOf("execute", i) # {}

\* some component result carries errors
HasErrors(componentsResults) ==
    \E c \in DOMAIN componentsResults : componentsResults[c] > 0

\* the execute of the entry returned, with or without component errors
Returned(i) == i <= Len(results) /\ results[i] # Null

Failed(i) == Returned(i) /\ HasErrors(results[i].componentsResults)

Succeeded(i) == Returned(i) /\ ~HasErrors(results[i].componentsResults)

\* the k-th entry, in queue order, of a set of entries
NthOf(S, k) == CHOOSE i \in S : Cardinality({j \in S : j <= i}) = k

(***************************************************************************)
(* C1: when execute() returns, a Skipped entry never had its execute       *)
(* invoked and has no TaskResult; the returned list has queue length minus *)
(* skipped count results, and they are the results of the entries that     *)
(* were not skipped, in queue order.                                       *)
(***************************************************************************)
C1_SkippedContributeNothing ==
    pc = "done" =>
        LET kept == Entries \ SkippedEntries IN
        /\ \A i \in SkippedEntries : ~Executed(i)
        /\ Len(tasksResultsList) = Len(tasksQueue) - Cardinality(SkippedEntries)
        /\ \A k \in DOMAIN tasksResultsList :
              /\ tasksResultsList[k].task = tasksQueue[NthOf(kept, k)].task
              /\ tasksResultsList[k].env = tasksQueue[NthOf(kept, k)].env

C1_Witness ==
    /\ pc = "done"
    /\ Cardinality(SkippedEntries) = 2
    /\ Len(tasksResultsList) = 1

(***************************************************************************)
(* C2: in the returned list, artifacts is defined exactly for the results  *)
(* without component errors; the artifact generator is invoked once for    *)
(* each Succeeded entry and never for a Failed or Skipped entry.           *)
(***************************************************************************)
C2_ArtifactsIffNoErrors ==
    pc = "done" =>
        /\ \A k \in DOMAIN tasksResultsList :
              (tasksResultsList[k].artifacts # Undefined)
                  <=> ~HasErrors(tasksResultsList[k].componentsResults)
        /\ \A i \in Entries :
              Cardinality(CallsOf("generate", i)) = IF Succeeded(i) THEN 1 ELSE 0

C2_Witness ==
    /\ pc = "done"
    /\ \E i, j, m \in Entries : Succeeded(i) /\ Failed(j) /\ Skipped(m)


(***************************************************************************)
(* The matching rule and the scan, as the specification words them         *)
(***************************************************************************)
Dependencies(j) == tasksQueue[j].task.dependencies

\* a dependency string matches a task: same owner and, when the string names a
\* task, the same name
DepMatches(dependency, task) ==
    LET id == deserializeId(dependency) IN
    /\ id.aspectId = task.aspectId
    /\ id.name = NoName \/ id.name = task.name

\* the tasks of the entries that failed before entry j, in queue order
FailedBefore(j) ==
    LET ix == SelectSeq([i \in 1..(j - 1) |-> i], LAMBDA i : Failed(i))
    IN  [k \in 1..Len(ix) |-> tasksQueue[ix[k]].task]

\* no entry before entry j was skipped: no cause was recorded at its turn
NoCauseBefore(j) == \A m \in 1..(j - 1) : ~Skipped(m)

\* the first match: dependencies in declared order, failed tasks in order
RECURSIVE FirstMatch(_, _)
FirstMatch(deps, failed) ==
    IF deps = <<>>
    THEN Undefined
    ELSE IF \E k \in DOMAIN failed : DepMatches(Head(deps), failed[k])
    THEN failed[CHOOSE k \in DOMAIN failed :
                    /\ DepMatches(Head(deps), failed[k])
                    /\ \A l \in 1..(k - 1) : ~DepMatches(Head(deps), failed[l])]
    ELSE FirstMatch(Tail(deps), failed)

(***************************************************************************)
(* C3: if a task with owner A and no name failed, every later entry whose  *)
(* dependency list contains the unqualified dependency A is Skipped and    *)
(* its execute is never invoked, wherever A stands in the list.            *)
(***************************************************************************)
C3_DependentsOfFailedAreSkipped ==
    \A i, j \in Entries :
        ( /\ i < j
          /\ Failed(i)
          /\ tasksQueue[i].task.name = NoName
          /\ \E d \in DOMAIN Dependencies(j) :
                Dependencies(j)[d] = tasksQueue[i].task.aspectId )
        => /\ ~Executed(j)
           /\ j <= Len(results) => Skipped(j)

(***************************************************************************)
(* C4 as claimed: after a task T failed, a later entry that depends on     *)
(* T's owner qualified by a name other than T's, and none of whose other   *)
(* dependencies matches a failed task, is not Skipped: it executes and is  *)
(* in the results list.                                                    *)
(***************************************************************************)
QualifiedOtherName(dependency, task) ==
    LET id == deserializeId(dependency) IN
    /\ id.aspectId = task.aspectId
    /\ id.name # NoName
    /\ id.name # task.name

InResultsList(j) ==
    \E k \in DOMAIN tasksResultsList :
        /\ tasksResultsList[k].task = tasksQueue[j].task
        /\ tasksResultsList[k].env = tasksQueue[j].env

C4_QualifiedSkippedOnlyByName ==
    \A i, j \in Entries :
        ( /\ i < j
          /\ Failed(i)
          /\ j <= Len(results)
          /\ \E d \in DOMAIN Dependencies(j) :
                /\ QualifiedOtherName(Dependencies(j)[d], tasksQueue[i].task)
                /\ \A e \in DOMAIN Dependencies(j) \ {d} :
                      \A k \in DOMAIN FailedBefore(j) :
                          ~DepMatches(Dependencies(j)[e], FailedBefore(j)[k]) )
        => /\ ~Skipped(j)
           /\ Returned(j)
           /\ pc = "done" => InResultsList(j)

(***************************************************************************)
(* C4 as amended: such an entry is not Skipped on account of T.  If no     *)
(* entry before it was Skipped and none of its dependencies matches any    *)
(* task that failed before it, it executes and is in the results list.     *)
(***************************************************************************)
C4_QualifiedMismatchExecutes ==
    \A i, j \in Entries :
        ( /\ i < j
          /\ Failed(i)
          /\ j <= Len(results)
          /\ \E d \in DOMAIN Dependencies(j) :
                QualifiedOtherName(Dependencies(j)[d], tasksQueue[i].task)
          /\ NoCauseBefore(j)
          /\ \A e \in DOMAIN Dependencies(j) :
                \A k \in DOMAIN FailedBefore(j) :
                    ~DepMatches(Dependencies(j)[e], FailedBefore(j)[k]) )
        => /\ ~Skipped(j)
           /\ Returned(j)
           /\ pc = "done" => InResultsList(j)

\* "a:y" failed, then an entry that depends on "a:x" and on "b" returned
C4_Witness ==
    /\ pc = "done"
    /\ Len(tasksQueue) = 2
    /\ Failed(1)
    /\ tasksQueue[1].task.name = <<"y">>
    /\ Dependencies(2) = <<<<"a", ":", "x">>, <<"b">>>>
    /\ Returned(2)

(***************************************************************************)
(* C5: when an entry with several dependencies is reached with no cause    *)
(* recorded and some task failed, the cause recorded by the scan is the    *)
(* first match, dependencies in declared order and failed tasks in order   *)
(* of failure; later dependencies neither change nor clear it.             *)
(***************************************************************************)
C5_FirstMatchIsRecorded ==
    \A j \in 1..Len(results) :
        ( /\ NoCauseBefore(j)
          /\ Len(FailedBefore(j)) > 0
          /\ Len(Dependencies(j)) >= 2 )
        => LET first == FirstMatch(Dependencies(j), FailedBefore(j)) IN
           IF first = Undefined
           THEN ~Skipped(j)
           ELSE Skipped(j) /\ failedDependencyTask = first


(***************************************************************************)
(* Environments, hooks and raised errors                                   *)
(***************************************************************************)
HookOps == {"preBuild", "execute", "postBuild"}

\* the environment of the entry is absent from the Context Registry
Unregistered(i) == tasksQueue[i].env \notin DOMAIN envsBuildContext

\* the invocations of preBuild, execute and postBuild of entry i or a later one
HookCallsFrom(i) ==
    {k \in DOMAIN calls : calls[k].op \in HookOps /\ calls[k].entry >= i}

\* the awaited operations that raised
RaisedCalls ==
    {k \in DOMAIN calls : calls[k].op = "settled" /\ calls[k].how = "raised"}

(***************************************************************************)
(* C6: when the queue has an entry whose environment id is absent from the *)
(* registry, execute() does not return and no preBuild, execute or         *)
(* postBuild of that entry or of a later entry is ever invoked.            *)
(***************************************************************************)
C6_MissingEnvAbortsBeforeHooks ==
    \A i \in Entries :
        Unregistered(i) => pc # "done" /\ HookCallsFrom(i) = {}

(***************************************************************************)
(* C7: an entry whose environment id is absent from the registry is never  *)
(* Skipped, and execute() never returns for a queue with such an entry.    *)
(***************************************************************************)
C7_MissingEnvNeverSkipped ==
    \A i \in Entries :
        Unregistered(i) => ~Skipped(i) /\ pc # "done"

(***************************************************************************)
(* C8: once a preBuild, execute or postBuild has raised, execute() has     *)
(* rejected with that error and nothing is invoked afterwards: the raise   *)
(* is the last call; after a raising preBuild no task was executed; after  *)
(* a raising execute no later task and no postBuild ran, the raising task  *)
(* has no result and is not in the failed set.                             *)
(***************************************************************************)
C8_RaiseAbortsRun ==
    \A k \in RaisedCalls :
        /\ pc = "fatal"
        /\ error = Raised([op |-> calls[k].of, entry |-> calls[k].entry])
        /\ running = NoOp
        /\ k = Len(calls)
        /\ calls[k].of = "preBuild" => \A i \in Entries : ~Executed(i)
        /\ calls[k].of = "execute" =>
              /\ \A i \in Entries : CallsOf("postBuild", i) = {}
              /\ \A i \in Entries : Executed(i) => i <= calls[k].entry
              /\ Len(results) = calls[k].entry - 1
              /\ failedTasks = FailedBefore(calls[k].entry)

\* the execute of the first of three entries raised; the others have hooks
C8_Witness ==
    /\ pc = "fatal"
    /\ Len(tasksQueue) = 3
    /\ \E k \in RaisedCalls : calls[k].of = "execute" /\ calls[k].entry = 1
    /\ tasksQueue[1].task.preBuild
    /\ tasksQueue[2].task.postBuild
    /\ tasksQueue[3].task.postBuild

(***************************************************************************)
(* C9: when every environment is registered and no operation raises,       *)
(* component errors do not abort the run: it is never rejected, it can     *)
(* always take its next step until it returns, the task loop visits every  *)
(* entry, every postBuild hook runs, and the returned list holds the       *)
(* result of each failed task, with artifacts undefined.                   *)
(***************************************************************************)
C9_ComponentErrorsDoNotAbort ==
    ( /\ \A i \in Entries : ~Unregistered(i)
      /\ RaisedCalls = {} )
    => /\ pc # "fatal"
       /\ pc # "done" => ENABLED Next
       /\ pc \in {"postBuild", "done"} => Len(results) = Len(tasksQueue)
       /\ pc = "done" =>
             /\ \A i \in Entries :
                   tasksQueue[i].task.postBuild
                       => Cardinality(CallsOf("postBuild", i)) = 1
             /\ \A i \in Entries :
                   Failed(i) =>
                       \E k \in DOMAIN tasksResultsList :
                           /\ tasksResultsList[k].task = tasksQueue[i].task
                           /\ tasksResultsList[k].env = tasksQueue[i].env
                           /\ tasksResultsList[k].componentsResults
                                  = results[i].componentsResults
                           /\ tasksResultsList[k].artifacts = Undefined

\* the first task failed, the second succeeded, the third was skipped and its
\* postBuild ran
C9_Witness ==
    /\ pc = "done"
    /\ Len(tasksQueue) = 3
    /\ Failed(1)
    /\ Succeeded(2)
    /\ Skipped(3)
    /\ CallsOf("postBuild", 3) # {}

(***************************************************************************)
(* C10: when execute() returns and no task failed, no entry was Skipped:   *)
(* the list is as long as the queue, result i is the result of entry i,    *)
(* and every result has artifacts defined.                                 *)
(***************************************************************************)
C10_NoFailureNoSkip ==
    (pc = "done" /\ \A i \in Entries : ~Failed(i))
    => /\ SkippedEntries = {}
       /\ Len(tasksResultsList) = Len(tasksQueue)
       /\ \A i \in Entries :
             /\ tasksResultsList[i].task = tasksQueue[i].task
             /\ tasksResultsList[i].env = tasksQueue[i].env
             /\ tasksResultsList[i].artifacts # Undefined

\* three entries returned without a failure, the last two with dependencies
C10_Witness ==
    /\ pc = "done"
    /\ Len(tasksQueue) = 3
    /\ \A i \in Entries : Succeeded(i)
    /\ Len(Dependencies(2)) = 1
    /\ Len(Dependencies(3)) = 2


(***************************************************************************)
(* The order of the calls                                                  *)
(***************************************************************************)
\* the invocations of preBuild, execute and postBuild, as places in calls
Invocations == {k \in DOMAIN calls : calls[k].op \in HookOps}

\* the place where the operation invoked at place k settled, if it has
SettledPlaces(k) ==
    {s \in DOMAIN calls :
        /\ s > k
        /\ calls[s].op = "settled"
        /\ calls[s].of = calls[k].op
        /\ calls[s].entry = calls[k].entry}

\* the places where the task loop decided about an entry: execute it or skip it
Decisions == {k \in DOMAIN calls : calls[k].op \in {"execute", "consoleWarning"}}

\* the phase of a call: 1 pre-build, 2 task loop, 3 post-build
PhaseOf(call) ==
    IF call.op = "settled"
    THEN (IF call.of = "preBuild" THEN 1 ELSE IF call.of = "execute" THEN 2 ELSE 3)
    ELSE IF call.op = "preBuild" THEN 1
    ELSE IF call.op = "postBuild" THEN 3
    ELSE 2

(***************************************************************************)
(* C11: at most one preBuild, execute or postBuild is in flight; within a  *)
(* phase the operations start in queue order; an operation starts only     *)
(* after every operation started before it has settled; and when the task  *)
(* loop decides about an entry, every earlier entry has been skipped or    *)
(* has had its execute settled.                                            *)
(***************************************************************************)
C11_OneOperationInFlight ==
    /\ Cardinality({k \in Invocations : SettledPlaces(k) = {}}) <= 1
    /\ (running = NoOp) <=> (\A k \in Invocations : SettledPlaces(k) # {})
    /\ \A k, l \in Invocations :
          k < l =>
              /\ \E s \in SettledPlaces(k) : s < l
              /\ calls[k].op = calls[l].op => calls[k].entry < calls[l].entry
    /\ \A l \in Decisions :
          \A i \in 1..(calls[l].entry - 1) :
              \E s \in 1..(l - 1) :
                  /\ calls[s].entry = i
                  /\ \/ calls[s].op = "consoleWarning"
                     \/ calls[s].op = "settled" /\ calls[s].of = "execute"

\* three entries with both hooks ran to the end: nine operations
C11_Witness ==
    /\ pc = "done"
    /\ Len(tasksQueue) = 3
    /\ Cardinality(Invocations) = 9

(***************************************************************************)
(* C12: the phases do not interleave: in the order of the calls every      *)
(* pre-build call precedes every call of the task loop, which precedes     *)
(* every post-build call; when a postBuild hook has started every entry is *)
(* Skipped, Succeeded or Failed; and every postBuild hook received the     *)
(* list that execute() returns, with the results of all executed entries.  *)
(***************************************************************************)
C12_PhasesDoNotInterleave ==
    /\ \A k, l \in DOMAIN calls :
          k < l => PhaseOf(calls[k]) <= PhaseOf(calls[l])
    /\ \A k \in DOMAIN calls :
          calls[k].op = "postBuild" =>
              /\ \A i \in Entries : Skipped(i) \/ Succeeded(i) \/ Failed(i)
              /\ calls[k].tasksResults = tasksResultsList
              /\ Len(calls[k].tasksResults)
                     = Cardinality({i \in Entries : Returned(i)})
              /\ \A i \in Entries : Returned(i) =>
                     \E r \in DOMAIN calls[k].tasksResults :
                         calls[k].tasksResults[r] = results[i]

\* the postBuild of the first entry received the results of two entries
C12_Witness ==
    /\ pc = "done"
    /\ Len(tasksQueue) = 3
    /\ Skipped(3)
    /\ \E k \in DOMAIN calls :
          /\ calls[k].op = "postBuild"
          /\ calls[k].entry = 1
          /\ Len(calls[k].tasksResults) = 2


(***************************************************************************)
(* C13: the cause is recorded once and reused: a recorded cause never      *)
(* changes; once an entry is Skipped every later entry is Skipped too, its *)
(* execute is not invoked, and every skip warning names the recorded       *)
(* cause.                                                                  *)
(***************************************************************************)
SkipsCascade ==
    /\ (failedDependencyTask # Undefined) <=> (SkippedEntries # {})
    /\ \A i, j \in Entries :
          (i < j /\ Skipped(i)) =>
              /\ ~Executed(j)
              /\ j <= Len(results) => Skipped(j)
    /\ \A k \in DOMAIN calls :
          calls[k].op = "consoleWarning" =>
              calls[k].failedTaskId = serializeId(failedDependencyTask)

CauseIsKept ==
    failedDependencyTask # Undefined => failedDependencyTask' = failedDependencyTask

C13_CauseRecordedOnce == []SkipsCascade /\ [][CauseIsKept]_vars

\* after "a" failed, its dependent and then a task without dependencies were
\* skipped
C13_Witness ==
    /\ pc = "done"
    /\ Len(tasksQueue) = 3
    /\ Failed(1)
    /\ Skipped(2)
    /\ Skipped(3)
    /\ Dependencies(3) = <<>>


(***************************************************************************)
(* execute() called again on the same BuildPipe                            *)
(***************************************************************************)
MaxRuns == 2

\* a root "a" with both hooks and a dependent "b" of it
RerunTasks ==
    {Task(<<"a">>, NoName, <<>>, TRUE, TRUE),
     Task(<<"b">>, NoName, <<<<"a">>>>, FALSE, FALSE)}

RerunEntries == {[task |-> t, env |-> "env1"] : t \in RerunTasks}

InitRerun == Constructed(RerunEntries)

\* the calls of execute() after the first one
LaterRuns == {k \in DOMAIN calls : calls[k].op = "execute()"}

\* execute() is called again after the previous call returned or rejected: the
\* fields of the instance are as that call left them (lines 48-49, 64-65)
executeAgain ==
    /\ pc \in {"done", "fatal"}
    /\ Cardinality(LaterRuns) < MaxRuns - 1
    /\ pc' = "preBuild"
    /\ idx' = 1
    /\ error' = Undefined
    /\ calls' = Append(calls, [op |-> "execute()", entry |-> 0])
    /\ UNCHANGED <<tasksQueue, envsBuildContext, failedTasks, failedDependencyTask,
                   running, results, tasksResultsList>>

NextRerun == Next \/ executeAgain

SpecRerun == InitRerun /\ [][NextRerun]_vars

(***************************************************************************)
(* C14: at the start of every call of execute(), a second call on the same *)
(* instance included, the failed set is empty and no cause is recorded.    *)
(***************************************************************************)
C14_FailureStateIsRunScoped ==
    [][(pc # "preBuild" /\ pc' = "preBuild")
          => (failedTasks' = <<>> /\ failedDependencyTask' = Undefined)]_vars


(***************************************************************************)
(* C15: every entry is Pending until it becomes exactly one of Skipped,    *)
(* Succeeded or Failed, and then stays so; its execute is invoked at most  *)
(* once; and when every operation settles the run ends: execute() returns  *)
(* with every entry terminal, or it has rejected.                          *)
(***************************************************************************)
EntryState(i) ==
    IF Skipped(i) THEN "Skipped"
    ELSE IF Failed(i) THEN "Failed"
    ELSE IF Succeeded(i) THEN "Succeeded"
    ELSE "Pending"

EntryStatesAreExclusive ==
    \A i \in Entries :
        /\ ~(Skipped(i) /\ Returned(i))
        /\ ~(Skipped(i) /\ Executed(i))
        /\ Cardinality(CallsOf("execute", i)) <= 1
        /\ Cardinality(CallsOf("consoleWarning", i)) <= 1
        /\ pc = "done" => EntryState(i) # "Pending"

TerminalStateIsKept ==
    \A i \in Entries :
        EntryState(i) # "Pending" => EntryState(i)' = EntryState(i)

C15_EntriesSettleAndRunEnds ==
    /\ []EntryStatesAreExclusive
    /\ [][TerminalStateIsKept]_vars
    /\ <>(pc \in {"done", "fatal"})

\* a run that returned with one entry in each terminal state
C15_Witness ==
    /\ pc = "done"
    /\ Len(tasksQueue) = 3
    /\ EntryState(1) = "Succeeded"
    /\ EntryState(2) = "Failed"
    /\ EntryState(3) = "Skipped"

(***************************************************************************)
(* C16: an entry with exactly one dependency string d, reached while no    *)
(* cause is recorded, is Skipped (and a cause recorded) iff some task that *)
(* failed before it has d's owner and, when d carries a name, d's name;    *)
(* the recorded cause is the earliest-failed such task.                    *)
(***************************************************************************)
\* the positions of the failed tasks that the single dependency d matches
MatchingFailures(d, failed) ==
    {k \in DOMAIN failed :
        LET id == deserializeId(d) IN
        /\ failed[k].aspectId = id.aspectId
        /\ IF id.name = NoName THEN TRUE ELSE failed[k].name = id.name}

C16_SingleDependencyRule ==
    \A j \in 1..Len(results) :
        (NoCauseBefore(j) /\ Len(Dependencies(j)) = 1)
        => LET failed == FailedBefore(j)
               matching == MatchingFailures(Dependencies(j)[1], failed)
           IN  IF matching = {}
               THEN ~Skipped(j) /\ Executed(j)
               ELSE /\ Skipped(j)
                    /\ ~Executed(j)
                    /\ \E k \in matching :
                          /\ \A l \in matching : k <= l
                          /\ failedDependencyTask = failed[k]

\* two differently named tasks of owner "a" failed; the nameless dependency
\* "a" is skipped citing the one that failed first
C16_Witness ==
    /\ Len(results) = 3
    /\ Failed(1) /\ Failed(2)
    /\ tasksQueue[1].task.name # tasksQueue[2].task.name
    /\ Dependencies(3) = <<<<"a">>>>
    /\ Skipped(3)
    /\ failedDependencyTask = tasksQueue[1].task

(***************************************************************************)
(* C17: an entry is Skipped only if an earlier entry was Skipped or one of *)
(* its own dependencies matches a task that failed before it.  So nothing  *)
(* is Skipped before some entry Failed, and the first Skipped entry        *)
(* declares dependencies and follows a Failed entry.                       *)
(***************************************************************************)
OwnDependencyFailed(j) ==
    \E d \in DOMAIN Dependencies(j) :
        \E k \in DOMAIN FailedBefore(j) :
            DepMatches(Dependencies(j)[d], FailedBefore(j)[k])

C17_SkipNeedsCause ==
    \A j \in Entries :
        Skipped(j)
        => /\ (\E m \in 1..(j - 1) : Skipped(m)) \/ OwnDependencyFailed(j)
           /\ \E i \in 1..(j - 1) : Failed(i)
           /\ NoCauseBefore(j) => /\ Dependencies(j) # <<>>
                                  /\ OwnDependencyFailed(j)

\* a dependent skipped for its own dependency, then an entry without
\* dependencies skipped after it
C17_Witness ==
    /\ Len(results) = 3
    /\ Failed(1)
    /\ Skipped(2) /\ OwnDependencyFailed(2)
    /\ Skipped(3) /\ Dependencies(3) = <<>>

(***************************************************************************)
(* C18: the recorded cause is absent or a member of the failed set: the    *)
(* task of an earlier entry that was executed and returned component       *)
(* errors.  The failed set holds exactly the tasks of the Failed entries   *)
(* (never a Skipped one), and it never changes once a cause is recorded.   *)
(***************************************************************************)
CauseIsAFailedTask ==
    \/ failedDependencyTask = Undefined
    \/ /\ \E k \in DOMAIN failedTasks : failedTasks[k] = failedDependencyTask
       /\ \E i \in Entries :
             /\ Failed(i) /\ Executed(i) /\ ~Skipped(i)
             /\ tasksQueue[i].task = failedDependencyTask
             /\ \A j \in SkippedEntries : i < j

FailedSetIsTheFailedEntries ==
    failedTasks = FailedBefore(Len(tasksQueue) + 1)

FailedSetIsFrozen ==
    failedDependencyTask # Undefined => failedTasks' = failedTasks

C18_CauseIsInFailedSet ==
    /\ [](CauseIsAFailedTask /\ FailedSetIsTheFailedEntries)
    /\ [][FailedSetIsFrozen]_vars

\* two tasks failed and the second of them is the recorded cause
C18_Witness ==
    /\ Len(failedTasks) = 2
    /\ failedTasks[1] # failedTasks[2]
    /\ failedDependencyTask = failedTasks[2]
    /\ Skipped(3)

(***************************************************************************)
(* C19: in a run that returned, the preBuild hook of every entry that      *)
(* defines one was invoked exactly once and so was its postBuild hook, in  *)
(* queue order, whether the entry ended Skipped, Failed or Succeeded; an   *)
(* entry without the hook has no such call.                                *)
(***************************************************************************)
HookCalledAsDefined(op, defined, i) ==
    Cardinality(CallsOf(op, i)) = IF defined THEN 1 ELSE 0

InQueueOrder(op) ==
    \A k, l \in DOMAIN calls :
        (k < l /\ calls[k].op = op /\ calls[l].op = op)
        => calls[k].entry < calls[l].entry

C19_HooksRunWhateverTheOutcome ==
    pc = "done"
    => /\ \A i \in Entries :
            /\ HookCalledAsDefined("preBuild", tasksQueue[i].task.preBuild, i)
            /\ HookCalledAsDefined("postBuild", tasksQueue[i].task.postBuild, i)
            /\ Skipped(i) => ~Executed(i)
       /\ InQueueOrder("preBuild")
       /\ InQueueOrder("postBuild")

\* a returned run whose second entry was skipped after the first failed, and
\* whose hooks both ran
C19_Witness ==
    /\ pc = "done"
    /\ Len(tasksQueue) = 3
    /\ Failed(1) /\ tasksQueue[1].task.postBuild
    /\ Skipped(2) /\ ~Executed(2)
    /\ CallsOf("preBuild", 2) # {} /\ CallsOf("postBuild", 2) # {}
    /\ CallsOf("postBuild", 1) # {} /\ CallsOf("postBuild", 3) # {}

(***************************************************************************)
(* Queues over two registered environments                                 *)
(***************************************************************************)
BothEnvs == {"env1", "env2"}

\* the root "a" with both hooks, the root "a:x", and dependents "b" of "a"
\* alone and of "a" and "a:x"
EnvsTasks ==
    {Task(<<"a">>, NoName, <<>>, TRUE, TRUE),
     Task(<<"a">>, <<"x">>, <<>>, FALSE, FALSE),
     Task(<<"b">>, NoName, <<<<"a">>>>, FALSE, FALSE),
     Task(<<"b">>, NoName, <<<<"a">>, <<"a", ":", "x">>>>, FALSE, FALSE)}

EnvsEntries == {[task |-> t, env |-> e] : t \in EnvsTasks, e \in BothEnvs}

InitEnvs ==
    /\ tasksQueue \in Queues(EnvsEntries)
    /\ envsBuildContext = [e \in BothEnvs |-> [envId |-> e]]
    /\ failedTasks = <<>>
    /\ failedDependencyTask = Undefined
    /\ pc = "idle"
    /\ idx = 0
    /\ running = NoOp
    /\ results = <<>>
    /\ tasksResultsList = Undefined
    /\ calls = <<>>
    /\ error = Undefined

SpecEnvs == InitEnvs /\ [][Next]_vars

(***************************************************************************)
(* C20: the skip decision does not depend on environments: the terminal    *)
(* states of the entries and the recorded cause are determined by the      *)
(* tasks, in queue order, and by which of them return component errors;    *)
(* and when a task failed in one environment, every later entry of another *)
(* environment that declares a dependency matching it is Skipped.          *)
(***************************************************************************)
\* the run of a task list as a function of the tasks and of which of them
\* fail when executed: no environment id is read
RECURSIVE RunOfTasks(_, _)
RunOfTasks(tasks, failing) ==
    IF tasks = <<>>
    THEN [failed |-> <<>>, cause |-> Undefined, states |-> <<>>]
    ELSE LET n == Len(tasks)
             before == RunOfTasks(SubSeq(tasks, 1, n - 1),
                                  SubSeq(failing, 1, n - 1))
             cause == updateFailedDependencyTask(tasks[n], before.failed,
                                                 before.cause)
         IN  IF shouldSkipTask(cause)
             THEN [failed |-> before.failed, cause |-> cause,
                   states |-> Append(before.states, "Skipped")]
             ELSE IF failing[n]
             THEN [failed |-> Append(before.failed, tasks[n]), cause |-> cause,
                   states |-> Append(before.states, "Failed")]
             ELSE [failed |-> before.failed, cause |-> cause,
                   states |-> Append(before.states, "Succeeded")]

StatesDependOnTasksOnly ==
    LET n == Len(results)
        run == RunOfTasks([i \in 1..n |-> tasksQueue[i].task],
                          [i \in 1..n |-> Failed(i)])
    IN  /\ \A i \in 1..n : EntryState(i) = run.states[i]
        /\ failedDependencyTask = run.cause
        /\ failedTasks = run.failed

DependentsInOtherEnvsAreSkipped ==
    \A i, j \in 1..Len(results) :
        ( /\ i < j
          /\ Failed(i)
          /\ tasksQueue[i].env # tasksQueue[j].env
          /\ \E d \in DOMAIN Dependencies(j) :
                DepMatches(Dependencies(j)[d], tasksQueue[i].task) )
        => Skipped(j)

C20_SkipDecisionIgnoresEnvs ==
    StatesDependOnTasksOnly /\ DependentsInOtherEnvsAreSkipped

====
